---- MODULE Spec2Model ----
(***************************************************************************)
(* A model of the Radiographics scripts: the image encoder, the three      *)
(* provider request clients, the batch runner with its timing table, the   *)
(* heuristic section splitter, the model-assisted classifier and the Excel *)
(* aggregator.                                                             *)
(***************************************************************************)
EXTENDS Integers, Sequences, FiniteSets, TLC

VARIABLES
    \* ---- image encoder (encode_images_from_paths) ----
    enc_pc,        \* "idle" | "run" | "done" | "raised"
    image_paths,   \* the source images named by the paths, in order
    path_idx,      \* position of the for loop over image_paths
    images,        \* the list of encoded payloads built so far
    enc_log,       \* one record per call of process_and_encode_image
    \* ---- provider request client (analyze_images_with_*_vision) ----
    client,        \* the state of one call of a request client, see ClientStart
    \* ---- heuristic splitter (process_folder of the summarizer, one file) ----
    spl_pc,        \* "idle" | "scan" | "done"
    content,       \* file.readlines(): the lines of the result file
    line_no,       \* position of the for loop over content
    items,         \* the six section buffers
    current_item_index,
    ws_row,        \* the row appended to the sheet for the file
    \* ---- Excel aggregator (combine_excel_files) ----
    agg_pc,        \* "idle" | "run" | "saved" | "crashed"
    folder_paths,  \* the run folders, each a path of segments
    sum_files,     \* per folder: the rows of its sum.xlsx, or Missing
    folder_idx,    \* position of the for loop over folder_paths
    combined_wb,   \* the sheets of the workbook being built
    combined_file, \* combined_sum.xlsx as saved, or Missing
    \* ---- batch runner (the main loop of a provider script) ----
    run_pc,        \* "idle" | "cases" | "saved" | "crashed" | "exited"
    provider,      \* which provider's script runs
    temp_idx,      \* position of the loop over temperatures
    case_idx,      \* position of the loop over the rows of the case list
    files,         \* the result files on disk, per (temperature, case)
    df_execution_times, \* the timing table in memory
    time_file,     \* the timing spreadsheet on disk
    log_file,      \* the lines of the provider's log file
    invoked,       \* the (temperature, case) pairs the client was called for
    provider_called, \* a provider call was made during this run
    last_timing,   \* the latest elapsed time measured, with its key
    files0,        \* the result files as they were when the run started
    quota,         \* "none" | "seen" (a provider call raised the quota error)
                   \* | "called_after" (a provider call was made after it)
    returned,      \* what the client returned, per call that returned, in order
    rerun,         \* the script has been started again after a run that ended
    unanswered,    \* the pairs the previous run got the absent result for
    execution_times, \* the elapsed times the client's statistics are made of
    last_call,     \* what the latest call of the client was made with
    \* ---- model-assisted classifier (process_folder of the classifier) ----
    strategy,      \* "none" | "heuristic" | "model": the script that runs
    cls_pc,        \* "idle" | "files" | "saved" | "crashed"
    cls_files,     \* the result files of the folder, in the order of the loop
    cls_idx,       \* position of the loop over the files
    cls_answers,   \* per file: what the provider answered the classification with
    cls_calls,     \* per file: the number of provider calls made for it
    ws,            \* the rows of the sheet being built
    problematic_files, \* the (file number, empty items) pairs collected
    sum_file       \* sum.xlsx as saved, or Missing

encVars == <<enc_pc, image_paths, path_idx, images, enc_log>>
splVars == <<spl_pc, content, line_no, items, current_item_index, ws_row>>
aggVars == <<agg_pc, folder_paths, sum_files, folder_idx, combined_wb, combined_file>>

runVars == <<run_pc, provider, temp_idx, case_idx, files, df_execution_times, time_file,
             log_file, invoked, provider_called, last_timing, files0, quota, returned,
             rerun, unanswered, execution_times, last_call>>

clsVars == <<strategy, cls_pc, cls_files, cls_idx, cls_answers, cls_calls, ws, problematic_files,
             sum_file>>

vars == <<encVars, client, splVars, aggVars, runVars, clsVars>>

-----------------------------------------------------------------------------
(* Text helpers. A text is a sequence of one-character strings.            *)

\* s[i..] begins with p
PrefixAt(s, p, i) ==
    /\ i + Len(p) - 1 <= Len(s)
    /\ \A j \in 1..Len(p) : s[i + j - 1] = p[j]

\* Python str.startswith
StartsWith(s, p) == PrefixAt(s, p, 1)

\* Python `p in s` on strings
Contains(s, p) == \E i \in 1..(Len(s) + 1) : PrefixAt(s, p, i)

UpperCase == <<"A", "B", "C", "D", "E", "F", "G", "H", "I", "J", "K", "L", "M", "N", "O", "P", "Q", "R", "S", "T", "U", "V", "W", "X", "Y", "Z">>
LowerCase == <<"a", "b", "c", "d", "e", "f", "g", "h", "i", "j", "k", "l", "m", "n", "o", "p", "q", "r", "s", "t", "u", "v", "w", "x", "y", "z">>

\* Python str.lower, one character
LowerChar(c) ==
    IF \E i \in 1..Len(UpperCase) : UpperCase[i] = c
    THEN LowerCase[CHOOSE i \in 1..Len(UpperCase) : UpperCase[i] = c]
    ELSE c

\* Python str.lower
Lower(s) == [i \in 1..Len(s) |-> LowerChar(s[i])]

-----------------------------------------------------------------------------
(* Image encoder.                                                          *)
(* A source image is [w, h, mode]; an encoded payload is the JPEG written  *)
(* for it: [w, h, mode, bytes]. The byte count the JPEG writer reports     *)
(* (buffered.tell()) depends on the pixel content, so each call is given   *)
(* `tell`, the byte count of the save at each attempt.                     *)

MAX_SIZE == 20 * 1024 * 1024

EncodeAttempts == 5

MinResolution == 150

\* resize_factor in tenths: 0.9 is 9, 0.7 is 7
DefaultResizeFactor == 9

RECURSIVE Pow(_, _)
Pow(b, k) == IF k = 0 THEN 1 ELSE b * Pow(b, k - 1)

\* int(original * (resize_factor ** attempt)); the integer quotient agrees
\* with Python's float product for every size and factor the model draws.
Scaled(original, resize_factor, attempt) ==
    (original * Pow(resize_factor, attempt)) \div Pow(10, attempt)

NoPayload == [w |-> 0, h |-> 0, mode |-> "none", bytes |-> 0]

\* the for loop of process_and_encode_image, from `attempt` on
RECURSIVE encode_loop(_, _, _, _)
encode_loop(image, resize_factor, tell, attempt) ==
    IF attempt >= EncodeAttempts
    THEN [raised |-> TRUE, attempts |-> attempt, payload |-> NoPayload]
    ELSE IF tell[attempt] < MAX_SIZE
         THEN [raised |-> FALSE, attempts |-> attempt + 1,
               payload |-> [w |-> Scaled(image.w, resize_factor, attempt),
                            h |-> Scaled(image.h, resize_factor, attempt),
                            mode |-> image.mode,
                            bytes |-> tell[attempt]]]
         ELSE encode_loop(image, resize_factor, tell, attempt + 1)

\* a slip: the size test dropped, the first save is returned whatever its size
process_and_encode_image_nocheck(image, resize_factor, tell) ==
    [raised |-> FALSE, attempts |-> 1,
     payload |-> [w |-> image.w, h |-> image.h, mode |-> image.mode,
                  bytes |-> tell[0]]]

process_and_encode_image(image, resize_factor, tell) ==
    encode_loop(IF image.mode = "RGBA" THEN [image EXCEPT !.mode = "RGB"] ELSE image,
                resize_factor, tell, 0)

\* a slip: `or` for `and`
ExceedsMinResolution_or(img) == img.w > MinResolution \/ img.h > MinResolution

\* the resolution test of encode_images_from_paths
ExceedsMinResolution(img) == img.w > MinResolution /\ img.h > MinResolution

-----------------------------------------------------------------------------
(* Bounds and input sets of the encoder.                                   *)

MaxPaths == 2

Dims == {MinResolution, MinResolution + 1}
Modes == {"RGBA", "RGB"}
SourceImages == [w : Dims, h : Dims, mode : Modes]

\* what the JPEG writer can report for one save
TellValues == {MAX_SIZE - 1, MAX_SIZE, MAX_SIZE + 1}
Tells == [0..(EncodeAttempts - 1) -> TellValues]

SeqsUpTo(S, n) == UNION {[1..k -> S] : k \in 0..n}

Range(f) == {f[x] : x \in DOMAIN f}

-----------------------------------------------------------------------------
(* Provider request clients.                                               *)
(* One provider call answers with a response content or raises an error;   *)
(* an outcome is [kind, body]: kind "text" (a string content), "list" (a   *)
(* content that is no string, Gemini only) or "error" (body is str(e)).    *)

max_attempts == 10

SORRY == <<"I", "'", "m", " ", "s", "o", "r", "r", "y", ",", " ", "b", "u", "t">>
IMAGE_PARSE_ERROR == <<"i", "m", "a", "g", "e", "_", "p", "a", "r", "s", "e", "_", "e", "r", "r", "o", "r">>
SAFETY == <<"S", "A", "F", "E", "T", "Y">>
EXCEEDED == <<"e", "x", "c", "e", "e", "d", "e", "d">>

\* len(result.content) < 10 in the Gemini client
MinContentLength == 10

\* resize factors of the clients' retries, in tenths
RetryResizeFactor == 9
SafetyResizeFactor == 7

None == [kind |-> "none", body |-> <<>>]
NoRequest == [prompt |-> "none", temperature |-> 0, images |-> <<>>]

\* Image.open(io.BytesIO(base64.b64decode(encoded_image)))
Decode(encoded_image) ==
    [w |-> encoded_image.w, h |-> encoded_image.h, mode |-> encoded_image.mode]

\* the loop that re-encodes every image of the list (resize_images in the
\* Claude client, written inline in the other two); tells[i] is what the JPEG
\* writer reports for image i. The first ValueError ends the loop.
resize_images(encoded_images, resize_factor, tells) ==
    LET r == [i \in 1..Len(encoded_images) |->
                 process_and_encode_image(Decode(encoded_images[i]), resize_factor, tells[i])]
    IN [raised |-> \E i \in 1..Len(encoded_images) : r[i].raised,
        images |-> [i \in 1..Len(encoded_images) |-> r[i].payload]]

\* a slip: `<=` for `<` in range(max_attempts) bookkeeping, one attempt too many
more_attempts_offbyone(attempt) == attempt + 1 <= max_attempts

\* for attempt in range(max_attempts): is there an iteration after `attempt`
more_attempts(attempt) == attempt + 1 < max_attempts

\* the end of a loop iteration that returned nothing: the next iteration, or
\* `return None` after the last
next_attempt(c) ==
    IF more_attempts(c.attempt)
    THEN [c EXCEPT !.attempt = @ + 1]
    ELSE [c EXCEPT !.attempt = @ + 1, !.pc = "returned", !.result = None]

\* a slip: the refusal test dropped
is_refusal_never(text) == FALSE

\* content.startswith("I'm sorry, but")
is_refusal(text) == StartsWith(text, SORRY)

\* a slip: the request rebuilt from a default temperature
request_default_temperature(c) ==
    [prompt |-> c.prompt_text, temperature |-> 0, images |-> c.encoded_images]

\* the request an attempt sends: the text part, one image part per encoded
\* image, and the temperature
request(c) ==
    [prompt |-> c.prompt_text, temperature |-> c.temperature, images |-> c.encoded_images]

\* the balance/quota signal: "exceeded" in str(e).lower()
QuotaSignal(outcome) ==
    outcome.kind = "error" /\ Contains(Lower(outcome.body), EXCEEDED)

\* the provider call of an attempt and its answer
sent(c, outcome) ==
    [c EXCEPT !.calls = @ + 1, !.last_request = request(c),
              !.last_outcome = outcome, !.resized = "none",
              !.quota = IF @ # "none" THEN "called_after"
                        ELSE IF QuotaSignal(outcome) THEN "seen" ELSE "none"]

\* a slip: the images are re-encoded after any error
parse_error_handler_always(c, outcome, tells) ==
    IF c.attempt < max_attempts - 1
    THEN LET r == resize_images(c.encoded_images, RetryResizeFactor, tells) IN
         IF r.raised
         THEN [sent(c, outcome) EXCEPT !.pc = "raised", !.resized = "failed"]
         ELSE next_attempt([sent(c, outcome) EXCEPT !.encoded_images = r.images,
                                                    !.resized = "done"])
    ELSE next_attempt(sent(c, outcome))

\* the `except` block of the GPT-4o and Claude clients from the
\* image_parse_error test on: it is not inside any try, so the encoder's
\* ValueError leaves the client
parse_error_handler(c, outcome, tells) ==
    IF Contains(Lower(outcome.body), IMAGE_PARSE_ERROR) /\ c.attempt < max_attempts - 1
    THEN LET r == resize_images(c.encoded_images, RetryResizeFactor, tells) IN
         IF r.raised
         THEN [sent(c, outcome) EXCEPT !.pc = "raised", !.resized = "failed"]
         ELSE next_attempt([sent(c, outcome) EXCEPT !.encoded_images = r.images,
                                                    !.resized = "done"])
    ELSE next_attempt(sent(c, outcome))

\* one iteration of the loop of analyze_images_with_gpt4_vision
gpt4_attempt(c, outcome, tells) ==
    IF outcome.kind # "error"
    THEN IF is_refusal(outcome.body)
         THEN next_attempt(sent(c, outcome))
         ELSE [sent(c, outcome) EXCEPT !.pc = "returned", !.result = outcome]
    ELSE parse_error_handler(c, outcome, tells)

\* a slip: the quota test dropped from the except block
claude_attempt_noquota(c, outcome, tells) ==
    IF outcome.kind # "error"
    THEN IF is_refusal(outcome.body)
         THEN next_attempt(sent(c, outcome))
         ELSE [sent(c, outcome) EXCEPT !.pc = "returned", !.result = outcome]
    ELSE parse_error_handler(c, outcome, tells)

\* one iteration of the loop of analyze_images_with_claude_vision
claude_attempt(c, outcome, tells) ==
    IF outcome.kind # "error"
    THEN IF is_refusal(outcome.body)
         THEN next_attempt(sent(c, outcome))
         ELSE [sent(c, outcome) EXCEPT !.pc = "returned", !.result = outcome]
    ELSE IF Contains(Lower(outcome.body), EXCEEDED)
         THEN [sent(c, outcome) EXCEPT !.pc = "exited"]
         ELSE parse_error_handler(c, outcome, tells)

\* the `except` block of the Gemini client
gemini_handler(c, outcome, tells) ==
    IF Contains(Lower(outcome.body), SAFETY) /\ c.attempt < max_attempts - 1
    THEN LET r == resize_images(c.encoded_images, SafetyResizeFactor, tells) IN
         IF r.raised
         THEN [sent(c, outcome) EXCEPT !.pc = "raised", !.resized = "failed"]
         ELSE next_attempt([sent(c, outcome) EXCEPT !.encoded_images = r.images,
                                                    !.resized = "done"])
    ELSE next_attempt(sent(c, outcome))

UnableMsg == <<"U", "n", "a", "b", "l", "e", " ", "t", "o", " ", "r", "e", "d", "u", "c", "e">>

\* a slip: the length test dropped, every reply is returned
gemini_attempt_returns_short(c, outcome, tells) ==
    IF outcome.kind # "error"
    THEN [sent(c, outcome) EXCEPT !.pc = "returned", !.result = outcome]
    ELSE gemini_handler(c, outcome, tells)

\* one iteration of the loop of analyze_images_with_gemini_vision; the
\* re-encoding after a short reply is inside the try, so its ValueError is
\* handled by the except block like any provider error
gemini_attempt(c, outcome, tells) ==
    IF outcome.kind # "error"
    THEN IF outcome.kind = "text" /\ Len(outcome.body) < MinContentLength
         THEN LET r == resize_images(c.encoded_images, RetryResizeFactor, tells) IN
              IF r.raised
              THEN [gemini_handler(c, [kind |-> "error", body |-> UnableMsg], tells)
                       EXCEPT !.last_outcome = outcome, !.resized = "failed"]
              ELSE next_attempt([sent(c, outcome) EXCEPT !.encoded_images = r.images,
                                                         !.resized = "done"])
         ELSE [sent(c, outcome) EXCEPT !.pc = "returned", !.result = outcome]
    ELSE gemini_handler(c, outcome, tells)

\* one loop iteration of the client of c.provider
provider_attempt(c, outcome, tells) ==
    CASE c.provider = "gpt4o" -> gpt4_attempt(c, outcome, tells)
      [] c.provider = "gemini" -> gemini_attempt(c, outcome, tells)
      [] c.provider = "claude" -> claude_attempt(c, outcome, tells)

\* one loop iteration, with the note of whether an image of the list has
\* been handed to process_and_encode_image in this call of the client
client_attempt(c, outcome, tells) ==
    LET d == provider_attempt(c, outcome, tells) IN
    [d EXCEPT !.reencoded = @ \/ (d.resized # "none" /\ c.encoded_images # <<>>)]

\* the state of a client at the call: nothing sent yet
ClientStart(p, prompt_text, encoded_images, temperature) ==
    [provider |-> p, pc |-> "loop", attempt |-> 0,
     prompt_text |-> prompt_text, temperature |-> temperature,
     encoded_images |-> encoded_images, calls |-> 0, result |-> None,
     last_request |-> NoRequest, last_outcome |-> None, resized |-> "none",
     quota |-> "none", reencoded |-> FALSE]

ClientIdle == [ClientStart("none", "none", <<>>, 0) EXCEPT !.pc = "idle"]

-----------------------------------------------------------------------------
(* Heuristic splitter.                                                     *)

SectionCount == 6

Digits == <<"0", "1", "2", "3", "4", "5", "6", "7", "8", "9">>

\* a slip: the marker of the current section instead of the next
marker_current(index) == <<Digits[index + 2], ".">>

\* f'{current_item_index + 2}.' for a section index below 5
marker(index) == <<Digits[index + 3], ".">>

Whitespace == {" ", "\n", "\t"}

RECURSIVE LStrip(_)
LStrip(s_) == IF s_ # <<>> /\ Head(s_) \in Whitespace THEN LStrip(Tail(s_)) ELSE s_

RECURSIVE RStrip(_)
RStrip(s_) ==
    IF s_ # <<>> /\ s_[Len(s_)] \in Whitespace THEN RStrip(SubSeq(s_, 1, Len(s_) - 1)) ELSE s_

\* Python str.strip
Strip(s_) == RStrip(LStrip(s_))

\* the test that moves to the next section
starts_next_item(index, line) ==
    index < SectionCount - 1 /\ Contains(Strip(line), marker(index))

\* a slip: `while` for `if`, the index moves past every marker the line holds
RECURSIVE index_after_while(_, _)
index_after_while(index, line) ==
    IF index < SectionCount - 1 /\ Contains(Strip(line), marker(index))
    THEN index_after_while(index + 1, line)
    ELSE index

\* the section index after one line
index_after(index, line) == IF starts_next_item(index, line) THEN index + 1 ELSE index

\* a slip: the stripped line is accumulated instead of the line
add_line_stripped(sections, index, line) ==
    [sections EXCEPT ![index + 1] = @ \o Strip(line)]

\* items[current_item_index] += line
add_line(sections, index, line) == [sections EXCEPT ![index + 1] = @ \o line]

\* the texts of a sequence, one after the other
RECURSIVE Concat(_)
Concat(texts) == IF texts = <<>> THEN <<>> ELSE Head(texts) \o Concat(Tail(texts))

\* file.readlines(): the text cut after every line feed, `line` holding the
\* characters of the line being read
RECURSIVE readlines_from(_, _)
readlines_from(text, line) ==
    IF text = <<>> THEN (IF line = <<>> THEN <<>> ELSE <<line>>)
    ELSE IF Head(text) = "\n"
         THEN <<Append(line, "\n")>> \o readlines_from(Tail(text), <<>>)
         ELSE readlines_from(Tail(text), Append(line, Head(text)))

\* the loop `for line in content` from line n on
RECURSIVE split_from(_, _, _, _)
split_from(lines, n, index, sections) ==
    IF n > Len(lines) THEN sections
    ELSE LET next == index_after(index, lines[n]) IN
         split_from(lines, n + 1, next, add_line(sections, next, lines[n]))

\* the six sections the heuristic splitter makes of a file
split_file(text) ==
    split_from(readlines_from(text, <<>>), 1, 0, [k \in 1..SectionCount |-> <<>>])

-----------------------------------------------------------------------------
(* Excel aggregator.                                                       *)

\* a file that does not exist
Missing == [exists |-> FALSE, rows |-> <<>>]

\* a workbook file holding the given sheets (sum.xlsx: the rows of its
\* active sheet)
Workbook(rows) == [exists |-> TRUE, rows |-> rows]

\* a slip: the leading segment of the path
sheet_name_first(folder_path) == folder_path[1]

\* folder_path.split('/')[-1]
sheet_name(folder_path) == folder_path[Len(folder_path)]

\* for row in ws: new_ws.append([cell.value for cell in row])
copy_rows(sheet) ==
    [r \in 1..Len(sheet) |-> [c \in 1..Len(sheet[r]) |-> sheet[r][c]]]

-----------------------------------------------------------------------------
(* Model-assisted classifier.                                              *)
(* A JSON object is a sequence of [key, value] pairs in the order of its   *)
(* keys; a value is a string [kind "str", text] or an object               *)
(* [kind "dict", items].                                                   *)

Str(text) == [kind |-> "str", text |-> text, items |-> <<>>]
Dict(pairs) == [kind |-> "dict", text |-> <<>>, items |-> pairs]
\* JSON null, which json.loads makes None
Null == [kind |-> "null", text |-> <<>>, items |-> <<>>]

\* what classify_content_with_gpt4 returns: a dict, or whatever else
\* json.loads made of the content
Classified(kind, pairs) == [kind |-> kind, items |-> pairs]

\* a slip: the failed classification is tried a second time
classify_content_with_gpt4_retry(answer) ==
    IF answer.kind \in {"json", "nonobject"}
    THEN [calls |-> 1, value |-> Classified(IF answer.kind = "json" THEN "dict" ELSE "list",
                                            answer.value)]
    ELSE [calls |-> 2, value |-> Classified("dict", <<>>)]

\* classify_content_with_gpt4: one provider call; json.loads of its content,
\* or {} when the call or json.loads raised
classify_content_with_gpt4(answer) ==
    IF answer.kind \in {"json", "nonobject"}
    THEN [calls |-> 1, value |-> Classified(IF answer.kind = "json" THEN "dict" ELSE "list",
                                            answer.value)]
    ELSE [calls |-> 1, value |-> Classified("dict", <<>>)]

\* dict.get(key, default)
dict_get(pairs, key, default) ==
    IF \E i \in 1..Len(pairs) : pairs[i].key = key
    THEN pairs[CHOOSE i \in 1..Len(pairs) : pairs[i].key = key].value
    ELSE default

\* sep.join(texts)
RECURSIVE Join(_, _)
Join(texts, sep) ==
    IF texts = <<>> THEN <<>>
    ELSE IF Len(texts) = 1 THEN texts[1]
    ELSE texts[1] \o sep \o Join(Tail(texts), sep)

\* the section of one category: the value of its key or "", a nested object
\* flattened to "key: value" lines
section_of(classified_content, j) ==
    LET section == dict_get(classified_content.items, <<Digits[j + 1]>>, Str(<<>>)) IN
    IF section.kind = "dict"
    THEN Join([i \in 1..Len(section.items) |->
                  section.items[i].key \o <<":", " ">> \o section.items[i].value.text],
              <<"\n">>)
    ELSE section.text

\* the values len() and str.strip() of the print loop and of the
\* empty_items test accept: a section is a string, or was a dict and has
\* been joined into one
has_len(classified_content, j) ==
    dict_get(classified_content.items, <<Digits[j + 1]>>, Str(<<>>)).kind \in {"str", "dict"}

\* process_file for a file that exists: the row appended to the sheet and
\* what is returned for the list of problematic files; a classification that
\* is no dict has no .get, and the AttributeError is not caught; a section
\* that is None is appended with the row (an empty cell) and then makes
\* len(section) raise TypeError, which is not caught either
process_file(file_number, answer) ==
    LET classified == classify_content_with_gpt4(answer)
        sections == [j \in 1..SectionCount |-> section_of(classified.value, j)]
        empty_items == {j \in 1..SectionCount : Strip(sections[j]) = <<>>}
    IN  IF classified.value.kind # "dict"
        THEN [raised |-> TRUE, calls |-> classified.calls, row |-> <<>>, result |-> {}]
        ELSE IF \E j \in 1..SectionCount : ~has_len(classified.value, j)
        THEN [raised |-> TRUE, calls |-> classified.calls,
              row |-> <<file_number>> \o sections, result |-> {}]
        ELSE [raised |-> FALSE, calls |-> classified.calls,
              row |-> <<file_number>> \o sections,
              result |-> IF empty_items # {}
                         THEN {[file_number |-> file_number, empty_items |-> empty_items]}
                         ELSE {}]

-----------------------------------------------------------------------------
(* Batch runner and timing recorder.                                       *)

\* encode_images_from_paths from path i on, `acc` holding the payloads so far
RECURSIVE encode_from(_, _, _, _)
encode_from(paths, tells, i, acc) ==
    IF i > Len(paths)
    THEN [raised |-> FALSE, images |-> acc]
    ELSE IF ~ExceedsMinResolution(paths[i])
         THEN encode_from(paths, tells, i + 1, acc)
         ELSE LET r == process_and_encode_image(paths[i], DefaultResizeFactor, tells[i]) IN
              IF r.raised
              THEN [raised |-> TRUE, images |-> acc]
              ELSE encode_from(paths, tells, i + 1, Append(acc, r.payload))

\* a slip: the resolution test dropped, every image is encoded
RECURSIVE encode_from_nofilter(_, _, _, _)
encode_from_nofilter(paths, tells, i, acc) ==
    IF i > Len(paths)
    THEN [raised |-> FALSE, images |-> acc]
    ELSE LET r == process_and_encode_image(paths[i], DefaultResizeFactor, tells[i]) IN
         IF r.raised
         THEN [raised |-> TRUE, images |-> acc]
         ELSE encode_from_nofilter(paths, tells, i + 1, Append(acc, r.payload))

encode_images_from_paths_nofilter(paths, tells) == encode_from_nofilter(paths, tells, 1, <<>>)

\* encode_images_from_paths as the runner calls it
encode_images_from_paths(paths, tells) == encode_from(paths, tells, 1, <<>>)

\* for try_number in range(1, 2)
try_number == 1

\* a result file holding `text`
ResultFile(text) == [exists |-> TRUE, text |-> text]
NoFile == [exists |-> FALSE, text |-> <<>>]

\* a slip: an empty result file counts as absent
result_exists_nonempty(file) == file.exists /\ file.text # <<>>

\* a slip: the skip test dropped
result_exists_never(file) == FALSE

\* os.path.exists(result_file_path)
result_exists(file) == file.exists

\* the rows of the timing table with the given key
key_mask(df, number, temperature, try) ==
    {i \in 1..Len(df) : /\ df[i].number = number
                        /\ df[i].temperature = temperature
                        /\ df[i].try = try}

\* "Update or add execution time to DataFrame"
record_execution_time(df, number, temperature, try, execution_time) ==
    IF key_mask(df, number, temperature, try) # {}
    THEN [i \in 1..Len(df) |->
             IF i \in key_mask(df, number, temperature, try)
             THEN [df[i] EXCEPT !.time = execution_time]
             ELSE df[i]]
    ELSE Append(df, [number |-> number, temperature |-> temperature, try |-> try,
                     time |-> execution_time])

\* the list the statistics of a client are computed from, after a call that
\* returned a response: the GPT-4o script appends to a list of the module,
\* the Claude client to a list it makes anew at every call, and the Gemini
\* client keeps none
accumulated(p, samples, execution_time) ==
    CASE p = "gpt4o" -> Append(samples, execution_time)
      [] p = "claude" -> <<execution_time>>
      [] p = "gemini" -> samples

\* no call of the client yet
NoCall == [slot |-> <<>>, image |-> <<>>, prompt |-> <<>>, image_count |-> 0]

\* a slip: the run starts from an empty table whatever the spreadsheet holds
load_empty(file) == <<>>

\* load_or_initialize_execution_times
load_or_initialize_execution_times(file) == IF file.exists THEN file.rows ELSE <<>>

\* a slip: the test of `if result:` inverted
truthy_negated(p, result) ==
    IF result = None THEN TRUE
    ELSE IF p = "gpt4o" THEN FALSE ELSE result.body = <<>>

\* `if result:` on what the client returned: the GPT-4o client returns the
\* choice object, the other two the content itself
truthy(p, result) ==
    IF result = None THEN FALSE
    ELSE IF p = "gpt4o" THEN TRUE ELSE result.body # <<>>

-----------------------------------------------------------------------------
(* Inputs of the clients.                                                  *)

Providers == {"gpt4o", "gemini", "claude"}

\* temperatures = [0, 0.5, 1], in tenths
temperatures == <<0, 5, 10>>

Prompts == {"prompt 1", "prompt 2"}

\* image_paths holds the one image of the case
ImagesPerCase == 1

RefusalText == <<"I", "'", "m", " ", "s", "o", "r", "r", "y", ",", " ", "b", "u", "t", " ", "n", "o">>
ShortText == <<"M", "R">>
GoodText == <<"1", ".", " ", "M", "R", " ", "2", ".", " ", "T", "1">>
ParseErrorMsg == <<"i", "m", "a", "g", "e", "_", "p", "a", "r", "s", "e", "_", "e", "r", "r", "o", "r">>
SafetyMsg == <<"S", "A", "F", "E", "T", "Y">>
QuotaMsg == <<"E", "x", "c", "e", "e", "d", "e", "d">>
TimeoutMsg == <<"t", "i", "m", "e", "o", "u", "t">>

Texts == {RefusalText, ShortText, GoodText, <<>>}
ErrorMessages == {ParseErrorMsg, SafetyMsg, QuotaMsg, TimeoutMsg}

Outcomes(p) ==
    [kind : {"text"}, body : Texts] \cup [kind : {"error"}, body : ErrorMessages]
    \cup (IF p = "gemini" THEN {[kind |-> "list", body |-> <<>>]} ELSE {})

\* what the JPEG writer reports when a client re-encodes an image: every save
\* below the ceiling, the first save at it, every save above it
ClientTells ==
    {[k \in 0..(EncodeAttempts - 1) |-> MAX_SIZE - 1],
     [k \in 0..(EncodeAttempts - 1) |-> IF k = 0 THEN MAX_SIZE ELSE MAX_SIZE - 1],
     [k \in 0..(EncodeAttempts - 1) |-> MAX_SIZE + 1]}

\* the payloads encode_images_from_paths hands to a client
ClientPayloads ==
    {[w |-> MinResolution + 1, h |-> MinResolution + 1, mode |-> "RGB", bytes |-> MAX_SIZE - 1]}

-----------------------------------------------------------------------------
(* The parts of the program that a run does not use stay as they are.    *)

EncIdle ==
    /\ enc_pc = "idle"
    /\ image_paths = <<>>
    /\ path_idx = 1
    /\ images = <<>>
    /\ enc_log = <<>>

SplIdle ==
    /\ spl_pc = "idle"
    /\ content = <<>>
    /\ line_no = 1
    /\ items = [k \in 1..SectionCount |-> <<>>]
    /\ current_item_index = 0
    /\ ws_row = <<>>

AggIdle ==
    /\ agg_pc = "idle"
    /\ folder_paths = <<>>
    /\ sum_files = <<>>
    /\ folder_idx = 1
    /\ combined_wb = <<>>
    /\ combined_file = Missing

RunIdle ==
    /\ run_pc = "idle"
    /\ provider = "none"
    /\ temp_idx = 1
    /\ case_idx = 1
    /\ files = <<>>
    /\ df_execution_times = <<>>
    /\ time_file = Missing
    /\ log_file = <<>>
    /\ invoked = <<>>
    /\ provider_called = FALSE
    /\ last_timing = <<>>
    /\ files0 = <<>>
    /\ quota = "none"
    /\ returned = <<>>
    /\ rerun = FALSE
    /\ unanswered = {}
    /\ execution_times = <<>>
    /\ last_call = NoCall

ClsIdle ==
    /\ strategy = "none"
    /\ cls_pc = "idle"
    /\ cls_files = <<>>
    /\ cls_idx = 1
    /\ cls_answers = <<>>
    /\ cls_calls = <<>>
    /\ ws = <<>>
    /\ problematic_files = <<>>
    /\ sum_file = Missing

-----------------------------------------------------------------------------
(* The encoder run on a list of paths.                                     *)

EncInit ==
    /\ enc_pc = "run"
    /\ image_paths \in SeqsUpTo(SourceImages, MaxPaths)
    /\ path_idx = 1
    /\ images = <<>>
    /\ enc_log = <<>>
    /\ client = ClientIdle
    /\ SplIdle /\ AggIdle /\ RunIdle /\ ClsIdle

\* one iteration of the for loop of encode_images_from_paths: the image is
\* skipped, or encoded and appended, or the encoder's ValueError leaves the
\* function.
EncodeOnePath ==
    /\ enc_pc = "run"
    /\ path_idx <= Len(image_paths)
    /\ LET img == image_paths[path_idx] IN
       IF ExceedsMinResolution(img)
       THEN \E tell \in Tells :
              LET r == process_and_encode_image(img, DefaultResizeFactor, tell) IN
              /\ enc_log' = Append(enc_log, [src |-> path_idx, attempts |-> r.attempts,
                                             raised |-> r.raised, payload |-> r.payload])
              /\ IF r.raised
                 THEN /\ enc_pc' = "raised"
                      /\ UNCHANGED <<images, path_idx>>
                 ELSE /\ images' = Append(images, r.payload)
                      /\ path_idx' = path_idx + 1
                      /\ UNCHANGED enc_pc
       ELSE /\ path_idx' = path_idx + 1
            /\ UNCHANGED <<images, enc_log, enc_pc>>
    /\ UNCHANGED <<image_paths, client, splVars, aggVars, runVars, clsVars>>

\* return images
EncodeReturn ==
    /\ enc_pc = "run"
    /\ path_idx > Len(image_paths)
    /\ enc_pc' = "done"
    /\ UNCHANGED <<image_paths, path_idx, images, enc_log, client, splVars, aggVars, runVars, clsVars>>

EncNext == EncodeOnePath \/ EncodeReturn

SpecEncoder == EncInit /\ [][EncNext]_vars

-----------------------------------------------------------------------------
(* A request client called on its own.                                     *)

ClientInit ==
    /\ EncIdle /\ SplIdle /\ AggIdle /\ RunIdle /\ ClsIdle
    /\ \E p \in Providers, q \in Prompts, t \in Range(temperatures),
          e \in SeqsUpTo(ClientPayloads, ImagesPerCase) :
          client = ClientStart(p, q, e, t)

\* one attempt of the running client
ClientAttempt ==
    /\ client.pc = "loop"
    /\ \E outcome \in Outcomes(client.provider),
          tells \in [1..Len(client.encoded_images) -> ClientTells] :
          client' = client_attempt(client, outcome, tells)
    /\ UNCHANGED <<encVars, splVars, aggVars, runVars, clsVars>>

ClientNext == ClientAttempt

SpecClient == ClientInit /\ [][ClientNext]_vars

-----------------------------------------------------------------------------
(* The splitter run on one result file.                                    *)

MaxFileLines == 2

NumberedFile ==
    <<<<"1", ".", " ", "A", "\n">>,
      <<"2", ".", " ", "B", "\n">>,
      <<"3", ".", " ", "C", "\n">>,
      <<"4", ".", " ", "D", "\n">>,
      <<"5", ".", " ", "E", "\n">>,
      <<"6", ".", " ", "F", "\n">>>>

\* lines a result file is drawn from: the six numbered lines, a line with
\* several markers, and a line with none
SplitLines == Range(NumberedFile) \cup {<<"2", ".", "3", ".", "\n">>, <<"T", "1", "\n">>}

\* a reply with a seventh numbered line
SevenLineFile == NumberedFile \o <<<<"7", ".", " ", "G", "\n">>>>

ResultFiles == {NumberedFile, SevenLineFile} \cup SeqsUpTo(SplitLines, MaxFileLines)

SplInit ==
    /\ spl_pc = "scan"
    /\ content \in ResultFiles
    /\ line_no = 1
    /\ items = [k \in 1..SectionCount |-> <<>>]
    /\ current_item_index = 0
    /\ ws_row = <<>>
    /\ EncIdle /\ client = ClientIdle /\ AggIdle /\ RunIdle /\ ClsIdle

\* one iteration of `for line in content`
SplitLine ==
    /\ spl_pc = "scan"
    /\ line_no <= Len(content)
    /\ LET line == content[line_no]
           index == index_after(current_item_index, line)
       IN /\ current_item_index' = index
          /\ items' = add_line(items, index, line)
    /\ line_no' = line_no + 1
    /\ UNCHANGED <<spl_pc, content, ws_row, encVars, client, aggVars, runVars, clsVars>>

\* ws.append([i] + items)
SplitAppendRow ==
    /\ spl_pc = "scan"
    /\ line_no > Len(content)
    /\ ws_row' = <<"i">> \o items
    /\ spl_pc' = "done"
    /\ UNCHANGED <<content, line_no, items, current_item_index, encVars, client, aggVars, runVars, clsVars>>

SplNext == SplitLine \/ SplitAppendRow

-----------------------------------------------------------------------------
(* The aggregator run on a list of folders.                                *)

MaxFolders == 2

\* run folders with pairwise different trailing segments, as in main()
FolderPaths ==
    {<<"gpt4o_result", "gpt4o_result_temp_0_try1">>,
     <<"Claude_3.5_result", "Claude_3.5_result_temp_0_try1">>,
     <<"gpt4o_result_temp_1_try1">>}

HeaderRow == <<"Number", "1.">>

\* what the active sheet of a sum.xlsx can hold
SheetContents ==
    {<<HeaderRow>>,
     <<HeaderRow, <<"1", "MR">>, <<"2", "None">>>>,
     <<HeaderRow, <<"2", "None">>, <<"1", "MR">>>>}

AggInit ==
    /\ agg_pc = "run"
    /\ folder_paths \in {f \in SeqsUpTo(FolderPaths, MaxFolders) :
                            \A i, j \in 1..Len(f) : i # j => f[i] # f[j]}
    /\ sum_files \in [1..Len(folder_paths) -> {Workbook(r) : r \in SheetContents} \cup {Missing}]
    /\ folder_idx = 1
    /\ combined_wb = <<>>
    /\ combined_file = Missing
    /\ EncIdle /\ client = ClientIdle /\ SplIdle /\ RunIdle /\ ClsIdle

\* one iteration of `for folder_path in folder_paths`
AggregateFolder ==
    /\ agg_pc = "run"
    /\ folder_idx <= Len(folder_paths)
    /\ IF sum_files[folder_idx] = Missing
       THEN UNCHANGED combined_wb
       ELSE combined_wb' = Append(combined_wb,
                                  [title |-> sheet_name(folder_paths[folder_idx]),
                                   rows |-> copy_rows(sum_files[folder_idx].rows)])
    /\ folder_idx' = folder_idx + 1
    /\ UNCHANGED <<agg_pc, folder_paths, sum_files, combined_file, encVars, client, splVars, runVars, clsVars>>

\* combined_wb.save('combined_sum.xlsx'). The initial sheet was removed
\* (line 41), so when no sum.xlsx was found the workbook has no sheet at
\* all, and openpyxl's save refuses such a workbook with IndexError ("At
\* least one sheet must be visible"), which nothing catches.
AggregateSave ==
    /\ agg_pc = "run"
    /\ folder_idx > Len(folder_paths)
    /\ IF combined_wb = <<>>
       THEN agg_pc' = "crashed" /\ UNCHANGED combined_file
       ELSE agg_pc' = "saved" /\ combined_file' = Workbook(combined_wb)
    /\ UNCHANGED <<folder_paths, sum_files, folder_idx, combined_wb, encVars, client, splVars, runVars, clsVars>>

AggNext == AggregateFolder \/ AggregateSave

SpecSplitter == SplInit /\ [][SplNext]_vars

SpecAggregator == AggInit /\ [][AggNext]_vars

-----------------------------------------------------------------------------
(* One run of a provider's batch script.                                   *)

NumCases == 1

Cases == 1..NumCases

\* a (temperature, case) pair: the index of the temperature and the case number
Slots == (1..Len(temperatures)) \X Cases

\* the place of a pair in the order of the two loops
Position(slot) == (slot[1] - 1) * NumCases + slot[2]

\* the image file of a case: large enough, or dropped by the resolution test
CaseImages ==
    {[w |-> MinResolution + 1, h |-> MinResolution + 1, mode |-> "RGBA"],
     [w |-> MinResolution, h |-> MinResolution + 1, mode |-> "RGB"]}

\* the prompt built from the row of a case
Prompt(case) == <<"prompt", case>>

OldText == <<"o", "l", "d">>

\* the elapsed seconds a run can measure
ElapsedTimes == {2}

\* the seconds in the rows loaded from an earlier run
LoadedTimes == {1}

\* the result files an earlier run can have left: those of the first k pairs,
\* possibly without the first, each empty or not
InitialFiles ==
    {[slot \in Slots |->
         IF Position(slot) <= k /\ ~(hole /\ Position(slot) = 1)
         THEN ResultFile(IF Position(slot) % 2 = e THEN <<>> ELSE OldText)
         ELSE NoFile] :
     k \in 0..Cardinality(Slots), hole \in BOOLEAN, e \in {0, 1, 2}}

KeyRow(slot, time) ==
    [number |-> slot[2], temperature |-> temperatures[slot[1]], try |-> try_number,
     time |-> time]

\* the rows of all pairs up to position k, in order
RowsUpTo(k, time) ==
    [i \in 1..k |-> KeyRow(CHOOSE slot \in Slots : Position(slot) = i, time)]

\* the timing spreadsheet an earlier run can have left: none, or one with
\* the rows of the first k pairs
InitialTimeFiles ==
    {Missing} \cup {Workbook(RowsUpTo(k, time)) :
                        k \in {1, Cardinality(Slots)}, time \in LoadedTimes}

\* the client run to its end: the states it can end in when started in one of S
RECURSIVE client_runs(_)
client_runs(S) ==
    IF \A c \in S : c.pc # "loop"
    THEN S
    ELSE client_runs(
            {c \in S : c.pc # "loop"} \cup
            UNION {{client_attempt([c EXCEPT !.last_request = NoRequest,
                                             !.last_outcome = None,
                                             !.resized = "none"], outcome, tells) :
                        outcome \in Outcomes(c.provider),
                        tells \in [1..Len(c.encoded_images) -> ClientTells]} :
                   c \in {d \in S : d.pc = "loop"}})

\* what the runner sees of a finished client call
client_results(p, prompt_text, encoded_images, temperature) ==
    {[pc |-> c.pc, result |-> c.result, called |-> c.calls > 0, quota |-> c.quota] :
        c \in client_runs({ClientStart(p, prompt_text, encoded_images, temperature)})}

\* the image lists a case can hand to the client
CaseImageLists ==
    {encode_images_from_paths(<<img>>, <<tell>>).images :
        img \in CaseImages, tell \in ClientTells}

\* the outcomes of every client call a run can make, computed once. What the
\* provider answers is the environment's choice, so the outcomes of a call
\* depend on the provider and the images only, not on the prompt or the
\* temperature of the case.
ClientResultsTable ==
    LET table == [p \in Providers, e \in CaseImageLists |->
                     client_results(p, Prompt(1), e, temperatures[1])]
    IN  CHOOSE t \in {table} : t = table

\* the most cases a run finds without a result file
MaxMissing == 3

RunInit ==
    /\ run_pc = "cases"
    /\ provider \in Providers
    /\ temp_idx = 1
    /\ case_idx = 1
    /\ files \in {f \in InitialFiles :
                     Cardinality({slot \in Slots : ~f[slot].exists}) <= MaxMissing}
    /\ files0 = files
    /\ time_file \in InitialTimeFiles
    /\ df_execution_times = load_or_initialize_execution_times(time_file)
    /\ log_file = <<>>
    /\ invoked = <<>>
    /\ provider_called = FALSE
    /\ last_timing = <<>>
    /\ quota = "none"
    /\ returned = <<>>
    /\ rerun = FALSE
    /\ unanswered = {}
    /\ execution_times = <<>>
    /\ last_call = NoCall
    /\ EncIdle /\ client = ClientIdle /\ SplIdle /\ AggIdle /\ ClsIdle

CurrentSlot == <<temp_idx, case_idx>>

\* the end of an iteration of the loop over the rows
NextCase ==
    IF case_idx < NumCases
    THEN case_idx' = case_idx + 1 /\ UNCHANGED temp_idx
    ELSE case_idx' = 1 /\ temp_idx' = temp_idx + 1

\* an iteration for a case whose result file exists: `continue`
RunnerSkipCase ==
    /\ run_pc = "cases"
    /\ temp_idx <= Len(temperatures)
    /\ result_exists(files[CurrentSlot])
    /\ NextCase
    /\ UNCHANGED <<run_pc, provider, files, df_execution_times, time_file, log_file,
                   invoked, provider_called, last_timing, files0, quota, returned,
                   rerun, unanswered, execution_times, last_call>>
    /\ UNCHANGED <<encVars, client, splVars, aggVars, clsVars>>

\* an uncaught exception ends the script
Crash ==
    /\ run_pc' = "crashed"
    /\ UNCHANGED <<temp_idx, case_idx, files, df_execution_times, time_file, log_file>>

\* an iteration for a case without a result file: the images are encoded,
\* the client is called and timed, the time is recorded and the result
\* written
RunnerProcessCase ==
    /\ run_pc = "cases"
    /\ temp_idx <= Len(temperatures)
    /\ ~result_exists(files[CurrentSlot])
    /\ \E img \in CaseImages, tell \in ClientTells :
          LET enc == encode_images_from_paths(<<img>>, <<tell>>) IN
          IF enc.raised
          THEN Crash /\ UNCHANGED <<invoked, provider_called, last_timing, quota, returned,
                                     execution_times, last_call>>
          ELSE \E r \in ClientResultsTable[provider, enc.images],
                  execution_time \in ElapsedTimes :
                 /\ invoked' = Append(invoked, CurrentSlot)
                 /\ last_call' = [slot |-> CurrentSlot, image |-> img,
                                  prompt |-> Prompt(case_idx),
                                  image_count |-> Len(enc.images)]
                 /\ execution_times' =
                       IF r.pc = "returned" /\ r.result # None
                       THEN accumulated(provider, execution_times, execution_time)
                       ELSE IF provider = "claude" THEN <<>> ELSE execution_times
                 /\ provider_called' = (provider_called \/ r.called)
                 /\ quota' = IF quota # "none"
                              THEN IF r.called THEN "called_after" ELSE quota
                              ELSE r.quota
                 /\ returned' = IF r.pc = "returned"
                                 THEN Append(returned, [slot |-> CurrentSlot,
                                                        result |-> r.result])
                                 ELSE returned
                 /\ IF r.pc = "raised"
                    THEN Crash /\ UNCHANGED last_timing
                    ELSE IF r.pc = "exited"
                    THEN /\ time_file' = Workbook(df_execution_times)
                         /\ run_pc' = "exited"
                         /\ UNCHANGED <<temp_idx, case_idx, files, df_execution_times,
                                        log_file, last_timing>>
                    ELSE /\ last_timing' = KeyRow(CurrentSlot, execution_time)
                         /\ IF provider = "claude"
                            THEN Crash
                            ELSE /\ df_execution_times' =
                                       record_execution_time(df_execution_times, case_idx,
                                           temperatures[temp_idx], try_number, execution_time)
                                 /\ IF truthy(provider, r.result)
                                    THEN /\ files' = [files EXCEPT ![CurrentSlot] =
                                                         ResultFile(r.result.body)]
                                         /\ UNCHANGED log_file
                                    ELSE /\ log_file' = IF provider = "gemini" THEN log_file
                                                        ELSE Append(log_file, CurrentSlot)
                                         /\ UNCHANGED files
                                 /\ NextCase
                                 /\ UNCHANGED <<run_pc, time_file>>
    /\ UNCHANGED <<provider, files0, rerun, unanswered>>
    /\ UNCHANGED <<encVars, client, splVars, aggVars, clsVars>>

\* save_execution_times_to_excel(df_execution_times, time_file_name) after
\* the loops. In the Claude script the table is a local of main() that no
\* skipped case has bound, so reading it raises UnboundLocalError.
RunnerSave ==
    /\ run_pc = "cases"
    /\ temp_idx > Len(temperatures)
    /\ IF provider = "claude"
       THEN run_pc' = "crashed" /\ UNCHANGED time_file
       ELSE run_pc' = "saved" /\ time_file' = Workbook(df_execution_times)
    /\ UNCHANGED <<provider, temp_idx, case_idx, files, df_execution_times, log_file,
                   invoked, provider_called, last_timing, files0, quota, returned,
                   rerun, unanswered, execution_times, last_call>>
    /\ UNCHANGED <<encVars, client, splVars, aggVars, clsVars>>

RunNext == RunnerSkipCase \/ RunnerProcessCase \/ RunnerSave

SpecRunner == RunInit /\ [][RunNext]_vars

-----------------------------------------------------------------------------
(* A run of a provider's batch script followed by a second run of it.      *)

MaxPending == 2

\* a first run over a folder where at most MaxPending result files are
\* missing and there is no timing spreadsheet yet (the second run loads
\* the one the first has saved)
RerunInit ==
    /\ run_pc = "cases"
    /\ provider \in Providers
    /\ temp_idx = 1
    /\ case_idx = 1
    /\ files \in {f \in InitialFiles :
                     Cardinality({slot \in Slots : ~f[slot].exists}) <= MaxPending}
    /\ files0 = files
    /\ time_file = Missing
    /\ df_execution_times = load_or_initialize_execution_times(time_file)
    /\ log_file = <<>>
    /\ invoked = <<>>
    /\ provider_called = FALSE
    /\ last_timing = <<>>
    /\ quota = "none"
    /\ returned = <<>>
    /\ rerun = FALSE
    /\ unanswered = {}
    /\ execution_times = <<>>
    /\ last_call = NoCall
    /\ EncIdle /\ client = ClientIdle /\ SplIdle /\ AggIdle /\ ClsIdle

\* the script is started again after a run that has ended: the files on
\* disk are what that run left, everything in memory starts afresh
RunnerRestart ==
    /\ run_pc \in {"saved", "crashed", "exited"}
    /\ ~rerun
    /\ rerun' = TRUE
    /\ unanswered' = {returned[i].slot : i \in {j \in 1..Len(returned) :
                                                   returned[j].result = None}}
    /\ run_pc' = "cases"
    /\ temp_idx' = 1
    /\ case_idx' = 1
    /\ files0' = files
    /\ df_execution_times' = load_or_initialize_execution_times(time_file)
    /\ invoked' = <<>>
    /\ provider_called' = FALSE
    /\ last_timing' = <<>>
    /\ quota' = "none"
    /\ returned' = <<>>
    /\ execution_times' = <<>>
    /\ last_call' = NoCall
    /\ UNCHANGED <<provider, files, time_file, log_file>>
    /\ UNCHANGED <<encVars, client, splVars, aggVars, clsVars>>

\* the script is stopped from outside between two iterations of its loops:
\* what is on disk stays, the table in memory is not saved
RunnerInterrupt ==
    /\ run_pc = "cases"
    /\ run_pc' = "crashed"
    /\ UNCHANGED <<provider, temp_idx, case_idx, files, df_execution_times, time_file,
                   log_file, invoked, provider_called, last_timing, files0, quota,
                   returned, rerun, unanswered, execution_times, last_call>>
    /\ UNCHANGED <<encVars, client, splVars, aggVars, clsVars>>

RerunNext ==
    RunnerSkipCase \/ RunnerProcessCase \/ RunnerSave \/ RunnerInterrupt \/ RunnerRestart

SpecRerun == RerunInit /\ [][RerunNext]_vars

-----------------------------------------------------------------------------
(* The classifier run on the result files of one folder.                   *)

MaxClassFiles == 2

T_MR == <<"M", "R">>
T_T1 == <<"T", "1">>

\* the JSON objects a classification can hold: all six categories with the
\* sixth nested, the first two only (one of them blank, or null), and no key
\* at all
JsonObjects ==
    {<<[key |-> <<"1">>, value |-> Str(T_MR)], [key |-> <<"2">>, value |-> Str(T_T1)],
       [key |-> <<"3">>, value |-> Str(T_MR)], [key |-> <<"4">>, value |-> Str(T_T1)],
       [key |-> <<"5">>, value |-> Str(T_MR)],
       [key |-> <<"6">>,
        value |-> Dict(<<[key |-> <<"6", ".", "1">>, value |-> Str(T_MR)],
                         [key |-> <<"6", ".", "2">>, value |-> Str(T_T1)]>>)]>>,
     <<[key |-> <<"1">>, value |-> Str(T_MR)], [key |-> <<"2">>, value |-> Str(<<" ">>)]>>,
     <<[key |-> <<"1">>, value |-> Str(T_MR)], [key |-> <<"2">>, value |-> Null]>>,
     <<>>}

\* what the provider can answer a classification with: content that is a
\* JSON object, content that is JSON but no object, content json.loads
\* rejects, or an error raised by the call
ClassifierAnswers ==
    [kind : {"json"}, value : JsonObjects]
    \cup [kind : {"nonobject", "invalid", "error"}, value : {<<>>}]

NotCalled == [kind |-> "none", value |-> <<>>]

\* the scripts that make a sum.xlsx of a folder of result files
Strategies == {"heuristic", "model"}

\* the result files of a folder: none, a reply on one line, a reply of one
\* numbered line per category
ClassFiles == {NoFile, ResultFile(GoodText), ResultFile(Concat(NumberedFile))}

ClsInit ==
    /\ strategy \in Strategies
    /\ cls_pc = "files"
    /\ cls_files \in SeqsUpTo(ClassFiles, MaxClassFiles)
    /\ cls_idx = 1
    /\ cls_answers = [i \in 1..Len(cls_files) |-> NotCalled]
    /\ cls_calls = [i \in 1..Len(cls_files) |-> 0]
    /\ ws = <<HeaderRow>>
    /\ problematic_files = <<>>
    /\ sum_file = Missing
    /\ EncIdle /\ client = ClientIdle /\ SplIdle /\ AggIdle /\ RunIdle

\* one iteration of `for i in range(1, 402)`: in the heuristic script the
\* scan of the file and the row; in the model-assisted one process_file and
\* the bookkeeping of the problematic files
ClassifyFile ==
    /\ cls_pc = "files"
    /\ cls_idx <= Len(cls_files)
    /\ IF ~cls_files[cls_idx].exists
       THEN /\ cls_idx' = cls_idx + 1
            /\ UNCHANGED <<cls_pc, cls_answers, cls_calls, ws, problematic_files>>
       ELSE IF strategy = "heuristic"
       THEN /\ ws' = Append(ws, <<cls_idx>> \o split_file(cls_files[cls_idx].text))
            /\ cls_idx' = cls_idx + 1
            /\ UNCHANGED <<cls_pc, cls_answers, cls_calls, problematic_files>>
       ELSE \E answer \in ClassifierAnswers :
               LET r == process_file(cls_idx, answer) IN
               /\ cls_answers' = [cls_answers EXCEPT ![cls_idx] = answer]
               /\ cls_calls' = [cls_calls EXCEPT ![cls_idx] = @ + r.calls]
               /\ IF r.raised
                  THEN /\ cls_pc' = "crashed"
                       /\ ws' = IF r.row # <<>> THEN Append(ws, r.row) ELSE ws
                       /\ UNCHANGED <<cls_idx, problematic_files>>
                  ELSE /\ ws' = Append(ws, r.row)
                       /\ problematic_files' =
                             IF r.result # {}
                             THEN Append(problematic_files, CHOOSE x \in r.result : TRUE)
                             ELSE problematic_files
                       /\ cls_idx' = cls_idx + 1
                       /\ UNCHANGED cls_pc
    /\ UNCHANGED <<strategy, cls_files, sum_file>>
    /\ UNCHANGED <<encVars, client, splVars, aggVars, runVars>>

\* wb.save(excel_file_path) after the loop
ClassifySave ==
    /\ cls_pc = "files"
    /\ cls_idx > Len(cls_files)
    /\ sum_file' = Workbook(ws)
    /\ cls_pc' = "saved"
    /\ UNCHANGED <<strategy, cls_files, cls_idx, cls_answers, cls_calls, ws,
                   problematic_files>>
    /\ UNCHANGED <<encVars, client, splVars, aggVars, runVars>>

ClsNext == ClassifyFile \/ ClassifySave

SpecClassifier == ClsInit /\ [][ClsNext]_vars

-----------------------------------------------------------------------------
(* Claims about the request clients.                                       *)

\* the answer to the latest provider call was a text starting with the
\* refusal phrase
LastRefused ==
    /\ client.calls > 0
    /\ client.last_outcome.kind = "text"
    /\ StartsWith(client.last_outcome.body, SORRY)

\* after the latest call the client goes on to another attempt, or has
\* returned the absent result after 10 calls
RetriedOrExhausted ==
    \/ client.pc = "loop" /\ client.attempt < 10
    \/ client.pc = "returned" /\ client.result = None /\ client.calls = 10

C2_AtMostTenCalls ==
    /\ client.calls <= 10
    /\ client.pc = "loop" => client.calls = client.attempt /\ client.attempt < 10
    /\ (client.pc = "returned" /\ client.result = None) => client.calls = 10
    /\ (client.calls = 10 /\ client.result = None /\ client.pc # "exited")
          => client.pc = "returned"

\* C2 witness: a Gemini client whose 10th call failed with an error and that
\* returned the absent result.
C2_Witness ==
    /\ client.provider = "gemini"
    /\ client.pc = "returned" /\ client.result = None /\ client.calls = 10
    /\ client.last_outcome.kind = "error"

\* C3 (as claimed): a request client never raises an exception to its
\* caller, also when the re-encoding of the images fails.
C3_ClientNeverRaises == client.pc # "raised"

\* the latest answer was a soft failure of the client's provider: a refusal
\* text (GPT-4o, Claude), a string shorter than 10 characters (Gemini), or an
\* error whose message carries the provider's marker
LastSoftFailure ==
    /\ client.calls > 0
    /\ \/ client.provider \in {"gpt4o", "claude"} /\ LastRefused
       \/ /\ client.provider = "gemini"
          /\ client.last_outcome.kind = "text"
          /\ Len(client.last_outcome.body) < 10
       \/ /\ client.last_outcome.kind = "error"
          /\ IF client.provider = "gemini"
             THEN Contains(Lower(client.last_outcome.body), Lower(SAFETY))
             ELSE Contains(Lower(client.last_outcome.body), IMAGE_PARSE_ERROR)

\* every request carries the prompt and the temperature the client was
\* called with
SamePromptAndTemperature ==
    client.calls > 0 =>
        /\ client.last_request.prompt = client.prompt_text
        /\ client.last_request.temperature = client.temperature

-----------------------------------------------------------------------------
(* Claims about the heuristic splitter and the aggregator.                 *)

\* C8: for the file whose lines are "1. A", "2. B", "3. C", "4. D", "5. E",
\* "6. F" the splitter's row holds exactly 6 sections after the file index,
\* each non-empty, section k being exactly the k-th line.
C8_NumberedFileSplit ==
    (content = NumberedFile /\ spl_pc = "done") =>
        /\ Len(ws_row) = 7
        /\ \A k \in 1..6 : ws_row[k + 1] # <<>> /\ ws_row[k + 1] = content[k]

\* C8 witness: the six-line file has been split and its row appended.
C8_Witness ==
    /\ content = NumberedFile /\ Len(content) = 6
    /\ spl_pc = "done"
    /\ Len(ws_row) = 7

\* C9: when every listed folder has a sum.xlsx, the saved workbook has one
\* sheet per folder in the order listed, named by the folder's trailing path
\* segment and holding the folder's rows in order with the same cell values.
C9_OneSheetPerFolder ==
    (agg_pc = "saved" /\ \A i \in 1..Len(folder_paths) : sum_files[i].exists) =>
        /\ combined_file.exists
        /\ Len(combined_file.rows) = Len(folder_paths)
        /\ \A i \in 1..Len(folder_paths) :
              /\ combined_file.rows[i].title = folder_paths[i][Len(folder_paths[i])]
              /\ combined_file.rows[i].rows = sum_files[i].rows

\* C9 witness: two folders, one of them nested, both with a sum.xlsx of
\* several rows, have been combined and saved.
C9_Witness ==
    /\ agg_pc = "saved"
    /\ Len(folder_paths) = 2
    /\ \A i \in 1..2 : sum_files[i].exists /\ Len(sum_files[i].rows) = 3
    /\ sum_files[1].rows # sum_files[2].rows
    /\ Len(folder_paths[1]) = 2

-----------------------------------------------------------------------------
(* Claims about the image encoder.                                         *)

\* C6: every call of the image encoder either returns a JPEG payload whose
\* byte size does not exceed the 20 MiB ceiling, written at scale
\* ratio^(attempts-1) after at most 5 saves, or raises after exactly 5 saves;
\* no payload above the ceiling is returned and no 6th save is made.
C6_EncoderCeilingOrFiveAttempts ==
    \A i \in 1..Len(enc_log) :
        LET e == enc_log[i]
            src == image_paths[e.src]
        IN /\ e.attempts \in 1..5
           /\ e.raised => e.attempts = 5
           /\ ~e.raised =>
                /\ e.payload.bytes <= 20 * 1024 * 1024
                /\ e.payload.w = Scaled(src.w, 9, e.attempts - 1)
                /\ e.payload.h = Scaled(src.h, 9, e.attempts - 1)
                /\ e.payload \in Range(images)

\* C6 witness: one image was returned after shrinking and another made the
\* encoder raise.
C6_Witness ==
    /\ \E i \in 1..Len(enc_log) : enc_log[i].raised
    /\ \E i \in 1..Len(enc_log) : ~enc_log[i].raised /\ enc_log[i].attempts = 5

\* C7: a source image whose width or height is at most 150 pixels never
\* reaches the encoder and adds no payload, and no error is raised for it:
\* the payloads are exactly the encoded images with both dimensions above 150.
C7_SmallImagesNeverEncoded ==
    /\ \A i \in 1..Len(image_paths) :
          (image_paths[i].w <= 150 \/ image_paths[i].h <= 150)
              => \A k \in 1..Len(enc_log) : enc_log[k].src # i
    /\ Len(images) = Cardinality({k \in 1..Len(enc_log) : ~enc_log[k].raised})
    /\ enc_pc = "done" =>
          Len(images) = Cardinality({i \in 1..Len(image_paths) :
                                        image_paths[i].w > 150 /\ image_paths[i].h > 150})

\* C7 witness: the function returned after passing over an image that is
\* wide enough but only 150 pixels high, and encoding another.
C7_Witness ==
    /\ enc_pc = "done"
    /\ Len(images) = 1
    /\ \E i \in 1..Len(image_paths) : image_paths[i].w > 150 /\ image_paths[i].h = 150

-----------------------------------------------------------------------------
(* Claims about the batch runner and the timing recorder.                  *)

\* C4: a case whose result file existed when the run started is never handed
\* to the request client and its file keeps its content, whatever that
\* content is (an empty file included); when every result file existed, the
\* run makes no provider call at all.
C4_ExistingResultsSkipped ==
    /\ \A slot \in DOMAIN files0 :
          files0[slot].exists =>
             /\ files[slot] = files0[slot]
             /\ slot \notin Range(invoked)
    /\ (\A slot \in DOMAIN files0 : files0[slot].exists) =>
          (~provider_called /\ invoked = <<>>)

\* a run over a folder where every result file existed, one of them empty
\* and one not, has gone through all its cases
C4_Witness ==
    /\ run_pc \in {"saved", "crashed"}
    /\ temp_idx > Len(temperatures)
    /\ files0 # <<>>
    /\ \A slot \in DOMAIN files0 : files0[slot].exists
    /\ \E slot \in DOMAIN files0 : files0[slot].text = <<>>
    /\ \E slot \in DOMAIN files0 : files0[slot].text # <<>>

\* the keys of the timing table are pairwise distinct
UniqueKeys(df) ==
    \A i, j \in 1..Len(df) :
        (/\ df[i].number = df[j].number
         /\ df[i].temperature = df[j].temperature
         /\ df[i].try = df[j].try) => i = j

\* C5: the timing table never holds two rows with one (case number,
\* temperature, try) key, and once an elapsed time has been measured for a
\* key the table holds exactly one row for that key, with that time.
C5_TimingUpsert ==
    /\ UniqueKeys(df_execution_times)
    /\ last_timing # <<>> =>
          LET rows == key_mask(df_execution_times, last_timing.number,
                               last_timing.temperature, last_timing.try)
          IN  /\ Cardinality(rows) = 1
              /\ \A i \in rows : df_execution_times[i].time = last_timing.time

C12_TimingRowForEveryProcessedCase ==
    [][returned' # returned =>
          /\ key_mask(df_execution_times', case_idx, temperatures[temp_idx],
                      try_number) # {}
          /\ run_pc' = "cases"]_vars

\* C13: for every case the client returned for, the result file exists
\* exactly when a response text was returned, and then holds that text.
C13_ResultFileIffResponse ==
    \A i \in 1..Len(returned) :
        LET file == files[returned[i].slot] IN
        /\ file.exists <=> returned[i].result.kind = "text"
        /\ file.exists => file.text = returned[i].result.body

\* the result file of every case of this run that returned a response text
\* is on disk
ResultFilesDurable ==
    \A i \in 1..Len(returned) :
        returned[i].result.kind = "text" =>
            files[returned[i].slot] = ResultFile(returned[i].result.body)

\* C14 as stated: when the runner is about to begin a case, the result file
\* of every earlier completed case is on disk and the timing spreadsheet
\* holds the timing table with the records of every earlier processed case.
C14_ProgressDurable ==
    (run_pc = "cases" /\ returned # <<>>) =>
       /\ ResultFilesDurable
       /\ time_file = Workbook(df_execution_times)

\* C14 amended: when the runner is about to begin a case, the result file of
\* every earlier completed case is on disk; the timing table is on disk once
\* the run has ended with the save after the last case.
C14_ResultFilesDurable ==
    /\ run_pc = "cases" => ResultFilesDurable
    /\ run_pc = "saved" => time_file = Workbook(df_execution_times)

\* a run is about to begin a case after one that wrote a result file, and
\* the timing record of that case is in memory only
C14_Witness ==
    /\ run_pc = "cases"
    /\ temp_idx <= Len(temperatures)
    /\ \E i \in 1..Len(returned) :
          /\ returned[i].result.kind = "text"
          /\ files[returned[i].slot].exists
    /\ time_file # Workbook(df_execution_times)

\* C15: a case the client returned the absent result for has no result
\* file; in the next run, once it has gone through all its cases, the client
\* has been invoked for every such case again, and it is invoked for no case
\* whose result file the earlier run left.
C15_UnansweredCasesRetried ==
    /\ \A i \in 1..Len(returned) :
          returned[i].result = None => ~files[returned[i].slot].exists
    /\ rerun =>
          /\ \A slot \in unanswered : ~files0[slot].exists
          /\ \A slot \in Range(invoked) : ~files0[slot].exists
          /\ temp_idx > Len(temperatures) => unanswered \subseteq Range(invoked)

\* a second run has gone through all its cases, invoking the client again for
\* a case the first run got no result for and skipping a case with a file
C15_Witness ==
    /\ rerun
    /\ run_pc = "saved"
    /\ unanswered # {}
    /\ unanswered \subseteq Range(invoked)
    /\ \E slot \in DOMAIN files0 : files0[slot].exists /\ slot \notin Range(invoked)

-----------------------------------------------------------------------------
(* Claims about the model-assisted classifier.                             *)

\* the six sections of a row are all the empty string
EmptyRow(file_number) == <<file_number>> \o [j \in 1..SectionCount |-> <<>>]

\* the row of the sheet with the given file number in its first cell
RowsOf(file_number) == {i \in 2..Len(ws) : ws[i][1] = file_number}

\* C16: a file whose classification call failed, or whose classification is
\* not valid JSON, has had exactly one provider call, its row holds the empty
\* string in all six fields, and the loop has gone on to the next file.
C16_FailedClassificationEmptyRow ==
    \A i \in 1..Len(cls_answers) :
        cls_answers[i].kind \in {"invalid", "error"} =>
            /\ cls_calls[i] = 1
            /\ \E r \in RowsOf(i) : ws[r] = EmptyRow(i)
            /\ Cardinality(RowsOf(i)) = 1
            /\ cls_idx > i

\* a folder has been saved in which the classification of the first file
\* failed and that of the second gave a JSON object
C16_Witness ==
    /\ cls_pc = "saved"
    /\ Len(cls_answers) >= 2
    /\ cls_answers[1].kind \in {"invalid", "error"}
    /\ cls_answers[2].kind = "json"
    /\ Len(ws) = 3
    /\ ws[2] = EmptyRow(1)
    /\ ws[3] # EmptyRow(2)

-----------------------------------------------------------------------------
(* Claims about missing inputs of the aggregator.                          *)

\* the folders of the list whose sum.xlsx exists, in order
FoldersWithSum == SelectSeq([i \in 1..Len(folder_paths) |-> i], LAMBDA i : sum_files[i].exists)

\* C17: whichever of the listed folders lack their sum.xlsx, all of them
\* included, the aggregator does not fail, and what it saves holds one sheet
\* for each folder whose sum.xlsx exists.
C17_MissingSumNeverFatal ==
    folder_paths # <<>> =>
       /\ agg_pc # "crashed"
       /\ agg_pc = "saved" =>
             /\ combined_file.exists
             /\ Len(combined_file.rows) = Len(FoldersWithSum)
             /\ \A k \in 1..Len(FoldersWithSum) :
                   combined_file.rows[k].rows = sum_files[FoldersWithSum[k]].rows

-----------------------------------------------------------------------------
(* Claims about the log file and about the clients' re-encoding.           *)

\* C18: the log file only grows at its end, and a step in which the client
\* returned the absent result for a case appends exactly one line, the line
\* of that case.
C18_OneLogLinePerFailure ==
    [][/\ Len(log_file') >= Len(log_file)
       /\ SubSeq(log_file', 1, Len(log_file)) = log_file
       /\ (returned' # returned /\ returned'[Len(returned')].result = None) =>
             log_file' = Append(log_file, <<temp_idx, case_idx>>)]_vars

\* C19: after a re-encoding of the images, every image the next attempt will
\* send is smaller in both dimensions than the image the failed attempt sent.
C19_ImagesShrink ==
    client.resized = "done" =>
        \A i \in 1..Len(client.encoded_images) :
            /\ client.encoded_images[i].w < client.last_request.images[i].w
            /\ client.encoded_images[i].h < client.last_request.images[i].h

\* C20: when an attempt of the Gemini client other than the last ended in an
\* error whose message holds the safety marker, in either case of letters,
\* the images were re-encoded before the next attempt.
C20_GeminiSafetyReencodes ==
    (/\ client.provider = "gemini"
     /\ client.last_outcome.kind = "error"
     /\ Contains(Lower(client.last_outcome.body), Lower(SAFETY))
     /\ client.calls < max_attempts
     /\ client.encoded_images # <<>>) =>
        client.resized \in {"done", "failed"}

-----------------------------------------------------------------------------
(* Claims about hard errors and short replies in the clients.              *)

\* C21: after an attempt that ended in an error whose message holds none of
\* the markers the clients look for (a hard error) the client holds the
\* prompt, the temperature and the encoded images it sent in that attempt,
\* and it is in the loop for the next attempt while attempts remain, and has
\* returned the absent result after the last.
C21_HardErrorKeepsInputs ==
    (/\ client.last_outcome.kind = "error"
     /\ ~Contains(Lower(client.last_outcome.body), IMAGE_PARSE_ERROR)
     /\ ~Contains(Lower(client.last_outcome.body), Lower(SAFETY))
     /\ ~Contains(Lower(client.last_outcome.body), EXCEEDED)) =>
        /\ client.prompt_text = client.last_request.prompt
        /\ client.temperature = client.last_request.temperature
        /\ client.encoded_images = client.last_request.images
        /\ client.resized = "none"
        /\ IF client.calls < max_attempts
           THEN client.pc = "loop" /\ client.attempt = client.calls
           ELSE client.pc = "returned" /\ client.result = None

\* a client with an image has met a hard error on an attempt that is not
\* the last
C21_Witness ==
    /\ client.last_outcome = [kind |-> "error", body |-> TimeoutMsg]
    /\ client.encoded_images # <<>>
    /\ client.pc = "loop"
    /\ client.calls > 1

\* C26: the Gemini client never returns a string of fewer than 10
\* characters: after such a reply the images were put through the
\* re-encoding with ratio 0.9 and the loop goes on, and after the tenth
\* attempt the client has returned the absent result.
C26_GeminiShortNeverReturned ==
    /\ (client.provider = "gemini" /\ client.pc = "returned"
           /\ client.result.kind = "text")
          => Len(client.result.body) >= 10
    /\ (/\ client.provider = "gemini"
        /\ client.last_outcome.kind = "text"
        /\ Len(client.last_outcome.body) < 10) =>
          /\ client.resized \in {"done", "failed"}
          /\ client.resized = "failed"
                => client.encoded_images = client.last_request.images
          /\ client.resized = "done"
                => /\ Len(client.encoded_images) = Len(client.last_request.images)
                   /\ \A i \in 1..Len(client.encoded_images) :
                         /\ client.encoded_images[i].w <= client.last_request.images[i].w
                         /\ client.encoded_images[i].h <= client.last_request.images[i].h
          /\ IF client.calls < max_attempts
             THEN client.pc = "loop" /\ client.attempt = client.calls
             ELSE client.pc = "returned" /\ client.result = None

\* the tenth attempt of the Gemini client, with an image, got a short reply
C26_Witness ==
    /\ client.provider = "gemini"
    /\ client.last_outcome.kind = "text"
    /\ Len(client.last_outcome.body) < 10
    /\ client.calls = max_attempts
    /\ client.pc = "returned"
    /\ client.last_request.images # <<>>

-----------------------------------------------------------------------------
(* Claims about the scan of the heuristic splitter.                        *)

\* C23: the splitter keeps six blocks and appends them, after the file
\* index, as one row; the section index is 0 before the first line, stays
\* within 0..5, and a line moves it by one exactly when it is below 5 and the
\* line contains the digit of index+2 followed by a dot, and leaves it as it
\* is otherwise, also when the line holds several markers.
C23_SectionIndexAdvance ==
    /\ [](/\ Len(items) = 6
          /\ current_item_index \in 0..5
          /\ (spl_pc = "scan" /\ line_no = 1) => current_item_index = 0
          /\ spl_pc = "done" => Len(ws_row) = 7 /\ SubSeq(ws_row, 2, 7) = items)
    /\ [][line_no' # line_no =>
             IF /\ current_item_index < 5
                /\ Contains(content[line_no], <<Digits[current_item_index + 3], ".">>)
             THEN current_item_index' = current_item_index + 1
             ELSE current_item_index' = current_item_index]_vars

\* a line with the markers of two sections has moved the index by one
C23_Witness ==
    /\ line_no = 2
    /\ content[1] = <<"2", ".", "3", ".", "\n">>
    /\ current_item_index = 1

\* C28: when the scan of a file is over, the six sections read one after
\* the other are the file's content, character for character and in the
\* order of the lines, and every section after the first that is not empty
\* begins with a line of the file that contains the section's number
\* followed by a dot.
C28_SectionsPartitionContent ==
    spl_pc = "done" =>
        /\ Concat(items) = Concat(content)
        /\ \E cut \in [0..SectionCount -> 0..Len(content)] :
              /\ cut[0] = 0 /\ cut[SectionCount] = Len(content)
              /\ \A k \in 1..SectionCount :
                    /\ cut[k - 1] <= cut[k]
                    /\ items[k] = Concat(SubSeq(content, cut[k - 1] + 1, cut[k]))
        /\ \A k \in 2..SectionCount :
              items[k] # <<>> =>
                 \E n \in 1..Len(content) :
                    /\ StartsWith(items[k], content[n])
                    /\ Contains(content[n], <<Digits[k + 1], ".">>)

\* a file whose lines went to more than one section, the first of them with
\* a line that carries no marker
C28_Witness ==
    /\ spl_pc = "done"
    /\ Len(content) = MaxFileLines
    /\ items[1] = <<"T", "1", "\n">>
    /\ items[2] # <<>>

-----------------------------------------------------------------------------
(* Claims about the rows of the model-assisted classifier.                 *)

\* C25: a file whose classification is a JSON object is handled without
\* ending the run, whatever values the object holds, and its row is the file
\* index and six fields in the order of the keys "1".."6": the empty string
\* for an absent key, the string for a string, and for a nested object its
\* "key: value" lines in the object's order.
C25_EveryValueHandled ==
    LET \* the classification of file i holds category j
        HasKey(i, j) ==
            \E n \in 1..Len(cls_answers[i].value) :
                cls_answers[i].value[n].key = <<Digits[j + 1]>>
        \* the value it holds for it
        ClassifiedValue(i, j) ==
            cls_answers[i].value[CHOOSE n \in 1..Len(cls_answers[i].value) :
                                    cls_answers[i].value[n].key = <<Digits[j + 1]>>].value
    IN
    \A i \in 1..Len(cls_files) :
        cls_answers[i].kind = "json" =>
            /\ ~(cls_pc = "crashed" /\ cls_idx = i)
            /\ \E n \in 2..Len(ws) :
                  /\ ws[n][1] = i
                  /\ Len(ws[n]) = 1 + 6
                  /\ \A j \in 1..6 :
                        /\ ~HasKey(i, j) => ws[n][j + 1] = <<>>
                        /\ (HasKey(i, j) /\ ClassifiedValue(i, j).kind = "str")
                              => ws[n][j + 1] = ClassifiedValue(i, j).text
                        /\ (HasKey(i, j) /\ ClassifiedValue(i, j).kind = "dict")
                              => ws[n][j + 1] =
                                    Join([m \in 1..Len(ClassifiedValue(i, j).items) |->
                                             ClassifiedValue(i, j).items[m].key \o <<":", " ">>
                                                \o ClassifiedValue(i, j).items[m].value.text],
                                         <<"\n">>)

-----------------------------------------------------------------------------
(* Claims about the rows and the report of both strategies.                *)

\* C24: under either strategy, an index whose file is missing has no row
\* and does not end the run, an index whose file exists has exactly one row
\* once the loop is past it and when the run is over, the rows are in
\* ascending order of the index, and a file whose row has an empty section
\* is in the list of problematic files with the numbers of its empty
\* sections.
C24_RowsAndReport ==
    LET \* the rows of the sheet whose first cell is the file index i
        RowsOfIndex(i) == {n \in 2..Len(ws) : ws[n][1] = i}
        \* the sections of row n that hold nothing but white space
        EmptySections(n) ==
            {j \in 1..6 : \A m \in 1..Len(ws[n][j + 1]) :
                              ws[n][j + 1][m] \in {" ", "\n", "\t"}}
    IN
    /\ \A i \in 1..Len(cls_files) :
          /\ ~cls_files[i].exists
                => RowsOfIndex(i) = {} /\ ~(cls_pc = "crashed" /\ cls_idx = i)
          /\ (cls_files[i].exists /\ (cls_idx > i \/ cls_pc \in {"saved", "crashed"}))
                => Cardinality(RowsOfIndex(i)) = 1
          /\ \A n \in RowsOfIndex(i) :
                (cls_idx > i /\ EmptySections(n) # {})
                   => \E k \in 1..Len(problematic_files) :
                         problematic_files[k] =
                            [file_number |-> i, empty_items |-> EmptySections(n)]
    /\ \A n, m \in 2..Len(ws) : n < m => ws[n][1] < ws[m][1]

-----------------------------------------------------------------------------
(* Claims about the statistics, the calls and the files of a batch.        *)

\* C22: the list the latency statistics are computed from holds one
\* elapsed time for every call of the client, in this run, that returned a
\* response, and nothing for the calls that returned the absent result or
\* ended the run.
C22_AccumulatorRunsAcrossBatch ==
    Len(execution_times) = Cardinality({i \in 1..Len(returned) : returned[i].result # None})

\* the client called with an empty image list and run until it ends, for
\* every provider
EmptyListRuns ==
    client_runs({ClientStart(p, Prompt(1), <<>>, temperatures[1]) : p \in Providers})

\* C27: the runner calls the client once, and only once, for every case it
\* has gone through whose result file did not exist; when the image of the
\* case is at most 150 pixels wide or high the call is made with the prompt
\* of the case and no image, and a client called with no image ends with no
\* image and has handed none to process_and_encode_image.
C27_DroppedImageStillCalled ==
    /\ \A slot \in Slots :
          /\ Cardinality({i \in 1..Len(invoked) : invoked[i] = slot}) <= 1
          /\ (Position(slot) < Position(CurrentSlot) /\ ~files0[slot].exists)
                => slot \in Range(invoked)
    /\ last_call # NoCall =>
          /\ last_call.slot = invoked[Len(invoked)]
          /\ last_call.prompt = Prompt(last_call.slot[2])
          /\ (last_call.image.w <= 150 \/ last_call.image.h <= 150)
                => last_call.image_count = 0
    /\ \A c \in EmptyListRuns :
          c.pc # "loop" /\ c.encoded_images = <<>> /\ ~c.reencoded

\* a run that has called the client for a case whose image was dropped and
\* has gone on to the end
C27_Witness ==
    /\ run_pc = "saved"
    /\ last_call # NoCall
    /\ last_call.image.w <= 150
    /\ last_call.image_count = 0
    /\ Len(invoked) > 1

\* C30: an iteration for a case whose result file exists changes neither
\* the timing table in memory nor the spreadsheet and calls no client; while
\* the run goes on, the table holds for such a case the rows the spreadsheet
\* held for its key when it was loaded, and none when it held none; and the
\* spreadsheet saved at the end of a run that skipped every case holds the
\* rows that were loaded.
C30_SkipLeavesTimingUntouched ==
    /\ [][(/\ run_pc = "cases"
           /\ temp_idx <= Len(temperatures)
           /\ files[CurrentSlot].exists)
          => /\ df_execution_times' = df_execution_times
             /\ time_file' = time_file
             /\ invoked' = invoked]_vars
    /\ [](LET \* the rows of a table that carry the key of a pair, in its order
              RowsWithKey(table, slot) ==
                  [i \in {j \in 1..Len(table) :
                             /\ table[j].number = slot[2]
                             /\ table[j].temperature = temperatures[slot[1]]
                             /\ table[j].try = 1} |-> table[i]]
          IN  run_pc = "cases" =>
                 \A slot \in Slots :
                    files0[slot].exists =>
                       RowsWithKey(df_execution_times, slot) =
                          RowsWithKey(IF time_file.exists THEN time_file.rows ELSE <<>>,
                                      slot))
    /\ [][(run_pc' = "saved" /\ \A slot \in Slots : files0[slot].exists)
          => /\ time_file'.exists
             /\ time_file'.rows = (IF time_file.exists THEN time_file.rows ELSE <<>>)]_vars

\* a run that skipped every case has saved a table that was loaded with
\* rows
C30_Witness ==
    /\ run_pc = "saved"
    /\ invoked = <<>>
    /\ \A slot \in Slots : files0[slot].exists
    /\ time_file.rows # <<>>

\* C29: over a run of a script and a second run of it, each gone through
\* to its end or stopped on the way, no step changes or removes a result
\* file that exists: the files that exist stay, with the content they have.
C29_ResultFilesNeverOverwritten ==
    [][\A slot \in Slots :
          files[slot].exists => (files'[slot].exists /\ files'[slot].text = files[slot].text)]_vars

\* a second run has written a result file beside one the first run wrote
\* and has saved
C29_Witness ==
    /\ rerun
    /\ run_pc = "saved"
    /\ \E slot \in Slots : files0[slot].exists /\ files0[slot].text \notin {<<>>, OldText}
    /\ \E slot \in Slots : ~files0[slot].exists /\ files[slot].exists

====
